---- MODULE Spec2Model ----
(***************************************************************************)
(* A model of the expenses lambda (src/backend/lambda-expenses): the       *)
(* classification pipeline behind handler(), the feature assembly of       *)
(* preprocess_expense_df_inference, the monthly snapshots and the          *)
(* cumulative series of the current month.                                 *)
(*                                                                         *)
(* Money is counted in cents (an amount 12.50 is 1250), a percentage in    *)
(* hundredths of a percent (33.33 is 3333), so that round(x, 2) is an      *)
(* integer rounding.  A DataFrame is a sequence of rows; each row carries  *)
(* its index label idx.                                                    *)
(***************************************************************************)
EXTENDS Integers, Sequences, FiniteSets, TLC

\* ------------------------------------------------------------------ bounds
\* the longest table the model reads
MaxRows == 3

\* ------------------------------------------------------------ cell values
\* NaN of a string (object) column
NaN == "nan"
\* NaN / NaT of a numeric column; every real value of such a column is >= 0
NaNnum == 0 - 1

FEATURE_COLS == <<"amount", "date", "category", "description/merchant">>

\* the categorical columns, in the order the code visits them
CAT_COLS == <<"category", "description/merchant">>

Range(s) == {s[i] : i \in DOMAIN s}

\* position of x in the sequence s (x occurs in s)
IndexOf(s, x) == CHOOSE i \in DOMAIN s : s[i] = x

\* The strings of the model in code point order, the order Python compares
\* str values in (np.unique / sorted).
StrOrder ==
  <<"Bookshop", "Dining Out", "Groceries", "Lunch Cafe", "Missing", "Rent", "Supermarket A">>

Rank(s) == IndexOf(StrOrder, s)

\* ---------------------------------------------------------------- dates
\* A date string: fmt "iso" is text shaped YYYY-MM-DD, "dmy" is text shaped
\* DD/MM/YYYY, "bad" is any other text, "nan" is a missing cell.
DateStr(fmt, y, m, d) == [fmt |-> fmt, y |-> y, m |-> m, d |-> d]

NoDate == DateStr("nan", 0, 0, 0)

IsLeap(y) == (y % 4 = 0 /\ y % 100 # 0) \/ y % 400 = 0

DaysInMonth(y, m) ==
  IF m = 2 THEN (IF IsLeap(y) THEN 29 ELSE 28)
  ELSE IF m \in {4, 6, 9, 11} THEN 30 ELSE 31

ValidCalendar(dt) == dt.m \in 1..12 /\ dt.d >= 1 /\ dt.d <= DaysInMonth(dt.y, dt.m)

\* Timestamp.dayofweek: 0 = Monday .. 6 = Sunday
DayOfWeekOf(dt) ==
  LET a  == (14 - dt.m) \div 12
      yy == dt.y - a
      mm == dt.m + 12 * a - 2
      sun0 == (dt.d + yy + (yy \div 4) - (yy \div 100) + (yy \div 400) + ((31 * mm) \div 12)) % 7
  IN (sun0 + 6) % 7

\* strptime of one cell under a format: does the text match it
Parses(dt, fmt) == dt.fmt = fmt /\ ValidCalendar(dt)

\* pd.to_datetime(col, format=fmt, errors='raise') raises ValueError: some
\* cell holds text that does not match; a missing cell gives NaT, no raise
RaisesStrict(dates, fmt) ==
  \E i \in DOMAIN dates : dates[i].fmt # "nan" /\ ~Parses(dates[i], fmt)

\* .dt.dayofweek of the parsed column, NaT giving NaN
DowColumn(dates, fmt) ==
  [i \in DOMAIN dates |->
     IF Parses(dates[i], fmt) THEN DayOfWeekOf(dates[i]) ELSE NaNnum]

\* a date step that falls back row by row: each row under YYYY-MM-DD, and
\* under DD/MM/YYYY when that fails
date_step_per_row(dates) ==
  [i \in DOMAIN dates |->
     IF Parses(dates[i], "iso") \/ Parses(dates[i], "dmy")
     THEN DayOfWeekOf(dates[i]) ELSE NaNnum]

\* The date step: strict YYYY-MM-DD over the column, on ValueError the whole
\* column again under DD/MM/YYYY with errors='coerce'
date_step(dates) ==
  IF ~RaisesStrict(dates, "iso")
  THEN DowColumn(dates, "iso")
  ELSE DowColumn(dates, "dmy")

\* ----------------------------------------------------- categorical encoding
\* df[col].fillna('Missing')
fillna_missing(col) == [i \in DOMAIN col |-> IF col[i] = NaN THEN "Missing" ELSE col[i]]

RECURSIVE FirstOccurrences(_)
\* the distinct values of a column in the order they first occur
FirstOccurrences(col) ==
  IF col = <<>> THEN <<>>
  ELSE LET init == FirstOccurrences(SubSeq(col, 1, Len(col) - 1))
       IN IF col[Len(col)] \in Range(init) THEN init ELSE Append(init, col[Len(col)])

\* an encoder that numbers the values as they come
le_fit_first_occurrence(col) == FirstOccurrences(col)

RECURSIVE SortStrings(_)
\* the members of S as a sequence in code point order
SortStrings(S) ==
  IF S = {} THEN <<>>
  ELSE LET lo == CHOOSE x \in S : \A y \in S : Rank(x) <= Rank(y)
       IN <<lo>> \o SortStrings(S \ {lo})

\* LabelEncoder.fit: classes_ = np.unique(y), the distinct values sorted
le_fit(col) == SortStrings(Range(col))

\* LabelEncoder.transform raises ValueError: y holds a label not in classes_
le_transform_raises(classes, col) == \E i \in DOMAIN col : col[i] \notin Range(classes)

\* LabelEncoder.transform: the 0-based position of each value in classes_
le_transform(classes, col) == [i \in DOMAIN col |-> IndexOf(classes, col[i]) - 1]

\* a fallback that gives unseen values a code of their own, after the last
encode_fallback_new_code(classes, col) ==
  [i \in DOMAIN col |->
     IF col[i] \notin Range(classes) THEN Len(classes) ELSE IndexOf(classes, col[i]) - 1]

\* the except branch: unseen rows get 0, the others their code
encode_fallback(classes, col) ==
  [i \in DOMAIN col |->
     IF col[i] \notin Range(classes) THEN 0 ELSE IndexOf(classes, col[i]) - 1]

\* apply mode: the supplied encoder, with the fallback on ValueError
encode_apply(classes, col) ==
  IF le_transform_raises(classes, col)
  THEN encode_fallback(classes, col)
  ELSE le_transform(classes, col)

\* fit mode: a new LabelEncoder, fit_transform
encode_fit(col) == le_transform(le_fit(col), col)

\* encoders: [given |-> FALSE] is None; otherwise classes maps the columns
\* the dict holds to their classes_
NoEncoders == [given |-> FALSE, classes |-> <<>>]

Encoders(cat, mer) ==
  [given |-> TRUE, classes |-> [c \in {"category", "description/merchant"} |->
                                   IF c = "category" THEN cat ELSE mer]]

HasEncoder(encoders, c) == encoders.given /\ c \in DOMAIN encoders.classes

\* the codes of one categorical column (already filled)
encode_column(encoders, c, col) ==
  IF HasEncoder(encoders, c)
  THEN encode_apply(encoders.classes[c], col)
  ELSE encode_fit(col)

\* ------------------------------------------------------------- amounts
\* an amount cell: a number of cents, text that is no number, or missing
Num(v) == [kind |-> "num", v |-> v]
Txt    == [kind |-> "str", v |-> 0]
NoNum  == [kind |-> "nan", v |-> 0]

\* pd.to_numeric(errors='coerce') of one cell
to_numeric(a) == IF a.kind = "num" THEN a.v ELSE NaNnum

\* ------------------------------------------------------------- rows
Row(a, d, c, m) == [amount |-> a, date |-> d, category |-> c, merchant |-> m, pred |-> NaN]

IsNa(row, col) ==
  CASE col = "amount" -> row.amount.kind = "nan"
    [] col = "date" -> row.date.fmt = "nan"
    [] col = "category" -> row.category = NaN
    [] col = "description/merchant" -> row.merchant = NaN

\* df.dropna(subset=cols) over raw columns
dropna_raw(df, cols) ==
  SelectSeq(df, LAMBDA r : \A i \in DOMAIN cols : ~IsNa(r, cols[i]))

\* give every row of a table its index label (RangeIndex; 1-based here)
WithIndex(rows) ==
  [i \in DOMAIN rows |-> [idx |-> i, amount |-> rows[i].amount, date |-> rows[i].date,
                          category |-> rows[i].category, merchant |-> rows[i].merchant,
                          pred |-> rows[i].pred]]

Column(df, f) == [i \in DOMAIN df |-> df[i][f]]

\* -------------------------------------------------- feature assembly
InCols(cols, c) == c \in Range(cols)

\* feature_map and X_cols_final: each requested column under its final name
XColName(c) ==
  CASE c = "date" -> "DayOfWeek"
    [] c = "category" -> "category_enc"
    [] c = "description/merchant" -> "description/merchant_enc"
    [] OTHER -> c

\* the final names with the derived columns moved to the front, in the
\* order feature_map is filled
x_cols_derived_first(feature_cols) ==
  SelectSeq([j \in DOMAIN feature_cols |-> XColName(feature_cols[j])],
            LAMBDA c : c \in {"DayOfWeek", "category_enc", "description/merchant_enc"})
  \o SelectSeq([j \in DOMAIN feature_cols |-> XColName(feature_cols[j])],
               LAMBDA c : c \notin {"DayOfWeek", "category_enc", "description/merchant_enc"})

x_cols_final(feature_cols) == [j \in DOMAIN feature_cols |-> XColName(feature_cols[j])]

\* The frame after the date step, the encoding and the numeric coercion: per
\* row its idx and the value of every derived column (NaNnum: not derived or NaN)
transformed(df, feature_cols, encoders) ==
  LET dow == IF InCols(feature_cols, "date")
             THEN date_step(Column(df, "date"))
             ELSE [i \in DOMAIN df |-> NaNnum]
      cat == IF InCols(feature_cols, "category")
             THEN encode_column(encoders, "category", fillna_missing(Column(df, "category")))
             ELSE [i \in DOMAIN df |-> NaNnum]
      mer == IF InCols(feature_cols, "description/merchant")
             THEN encode_column(encoders, "description/merchant",
                                fillna_missing(Column(df, "merchant")))
             ELSE [i \in DOMAIN df |-> NaNnum]
  IN [i \in DOMAIN df |->
        [idx |-> df[i].idx,
         vals |-> [c \in {"amount", "DayOfWeek", "category_enc", "description/merchant_enc"} |->
                     CASE c = "amount" -> to_numeric(df[i].amount)
                       [] c = "DayOfWeek" -> dow[i]
                       [] c = "category_enc" -> cat[i]
                       [] OTHER -> mer[i]]]]

\* df.dropna(subset=X_cols_final, inplace=True)
dropna_final(tdf, xcols) ==
  SelectSeq(tdf, LAMBDA r : \A j \in DOMAIN xcols : r.vals[xcols[j]] # NaNnum)

\* X = df[X_cols_final].values: one vector per surviving row, in column order
matrix(tdf, xcols) == [i \in DOMAIN tdf |-> [j \in DOMAIN xcols |-> tdf[i].vals[xcols[j]]]]

\* new_encoders: None when encoders were passed, else the fitted classes_
new_encoders(df, feature_cols, encoders) ==
  IF encoders.given THEN NoEncoders
  ELSE [given |-> TRUE,
        classes |-> [c \in {c \in Range(CAT_COLS) : InCols(feature_cols, c)} |->
                       le_fit(fillna_missing(Column(df, IF c = "category" THEN "category"
                                                        ELSE "merchant")))]]

\* The scaler is kept symbolic: X carries its raw values and how the rows
\* kept were scaled ("given": scaler.transform, "fitted": a new StandardScaler,
\* "none": X.size = 0, left as it is).
scaling(kept, xcols, hasScaler) ==
  IF Len(kept) * Len(xcols) = 0 THEN "none"
  ELSE IF hasScaler THEN "given" ELSE "fitted"

\* the results of preprocess_expense_df_inference once the frame tdf is
\* transformed and its complete rows kept are selected.  Beside the four
\* results the record keeps the frame as it stood after the transformations
\* (frame) and the index labels whose rows make up X.
preprocess_results(xcols, tdf, kept, fitted, scaled) ==
  [X |-> matrix(kept, xcols),
   used_cols |-> xcols,
   new_encoders |-> fitted,
   new_scaler |-> scaled = "fitted",
   scaled |-> scaled,
   frame |-> tdf,
   kept_idx |-> [i \in DOMAIN kept |-> kept[i].idx]]

\* the steps after the transformations: the final columns, the drop of
\* incomplete rows, the matrix and its scaling
preprocess_frame(df, feature_cols, encoders, hasScaler, xcols, tdf) ==
  preprocess_results(xcols, tdf, dropna_final(tdf, xcols),
                     new_encoders(df, feature_cols, encoders),
                     scaling(dropna_final(tdf, xcols), xcols, hasScaler))

\* preprocess_expense_df_inference(df, feature_cols, encoders, scaler)
preprocess_expense_df_inference(df, feature_cols, encoders, hasScaler) ==
  preprocess_frame(df, feature_cols, encoders, hasScaler,
                   x_cols_final(feature_cols), transformed(df, feature_cols, encoders))

\* ------------------------------------------------------------ CSV storage
\* The stored dataset is CSV text: a missing value is an empty field, and the
\* file has no index column (to_csv(index=False)).
EmptyField == ""

CsvAmount(a) == IF a.kind = "nan" THEN [kind |-> "empty", v |-> 0] ELSE a
CsvDate(d) == IF d.fmt = "nan" THEN DateStr("empty", 0, 0, 0) ELSE d
CsvText(s) == IF s = NaN THEN EmptyField ELSE s

\* DataFrame.to_csv(index=False)
to_csv(frame) ==
  [hasPred |-> frame.hasPred,
   rows |-> [i \in DOMAIN frame.rows |->
               [amount |-> CsvAmount(frame.rows[i].amount),
                date |-> CsvDate(frame.rows[i].date),
                category |-> CsvText(frame.rows[i].category),
                merchant |-> CsvText(frame.rows[i].merchant),
                pred |-> CsvText(frame.rows[i].pred)]]]

ParseAmount(a) == IF a.kind = "empty" THEN NoNum ELSE a
ParseDate(d) == IF d.fmt = "empty" THEN NoDate ELSE d
ParseText(s) == IF s = EmptyField THEN NaN ELSE s

\* pd.read_csv: empty fields become NaN, the rows get a fresh RangeIndex
read_csv(csv) ==
  [hasPred |-> csv.hasPred,
   rows |-> [i \in DOMAIN csv.rows |->
               [idx |-> i,
                amount |-> ParseAmount(csv.rows[i].amount),
                date |-> ParseDate(csv.rows[i].date),
                category |-> ParseText(csv.rows[i].category),
                merchant |-> ParseText(csv.rows[i].merchant),
                pred |-> ParseText(csv.rows[i].pred)]]]

\* ------------------------------------------------------- the artifacts
\* classes_ of the persisted encoders (sorted, as LabelEncoder keeps them)
CategoryClasses == <<"Dining Out", "Groceries">>
MerchantClasses == <<"Lunch Cafe", "Supermarket A">>
TargetClasses == <<"need", "want">>

label_encoders == Encoders(CategoryClasses, MerchantClasses)

\* target_le.inverse_transform
inverse_transform(codes) == [i \in DOMAIN codes |-> TargetClasses[codes[i] + 1]]

\* ------------------------------------------------------ percentages
\* round half to even of num / den (den > 0, num >= 0): Python's round on
\* the exact quotient
RoundDiv(num, den) ==
  LET q == num \div den
      r == num % den
  IN IF 2 * r < den THEN q
     ELSE IF 2 * r > den THEN q + 1
     ELSE IF q % 2 = 0 THEN q ELSE q + 1

\* a percentage in hundredths, or the text a result field holds instead
Pct(v) == [kind |-> "num", v |-> v, s |-> ""]
PctText(s) == [kind |-> "str", v |-> 0, s |-> s]

CountPred(rows, label) == Cardinality({i \in DOMAIN rows : rows[i].pred = label})

\* round((count / total) * 100, 2), in hundredths of a percent
percentage(count, total) == RoundDiv(10000 * count, total)

\* percentages over the rows that hold a label instead of all rows
percentages_of_labelled(rows) ==
  LET labelled == Cardinality({i \in DOMAIN rows : rows[i].pred # NaN})
  IN IF Len(rows) = 0
     THEN [wants |-> PctText("wants_percentage"), needs |-> PctText("needs_percentage")]
     ELSE IF labelled = 0 THEN [wants |-> Pct(0), needs |-> Pct(0)]
     ELSE [wants |-> Pct(percentage(CountPred(rows, "want"), labelled)),
           needs |-> Pct(percentage(CountPred(rows, "need"), labelled))]

\* get_wants_and_needs_percentages(data), as unpacked by the caller into
\* (wants_percentage, needs_percentage): the empty table returns a dict, and
\* unpacking a dict yields its two keys
get_wants_and_needs_percentages(rows) ==
  IF Len(rows) = 0
  THEN [wants |-> PctText("wants_percentage"), needs |-> PctText("needs_percentage")]
  ELSE [wants |-> Pct(percentage(CountPred(rows, "want"), Len(rows))),
        needs |-> Pct(percentage(CountPred(rows, "need"), Len(rows)))]

\* ---------------------------------------------------- classify_expenses
\* data.dropna(subset=FEATURE_COLS).index
valid_index(rows) == Column(dropna_raw(rows, FEATURE_COLS), "idx")

\* The rows data.loc[valid_idx, 'predicted_expense_type'] = preds_label
\* writes: the labels by position over valid_idx.  With one label and several
\* rows the single value is broadcast.
write_back(rows, valid_idx, labels) ==
  [i \in DOMAIN rows |->
     IF rows[i].idx \in Range(valid_idx)
     THEN [rows[i] EXCEPT !.pred =
             IF Len(labels) = 1 THEN labels[1]
             ELSE labels[IndexOf(valid_idx, rows[i].idx)]]
     ELSE rows[i]]

\* the assignment raises ValueError: the lengths differ.  One label for
\* several rows is broadcast by some code paths of the library (a column
\* that does not exist yet) and refused by others: env.broadcast says which.
write_back_raises(valid_idx, labels, env) ==
  /\ Len(labels) # Len(valid_idx)
  /\ ~(Len(labels) = 1 /\ env.broadcast)

\* the rows that hold a label
labelled_idx(rows) == {rows[i].idx : i \in {j \in DOMAIN rows : rows[j].pred # NaN}}

\* expense_details: float(row['amount']) raises ValueError on text
details_raise(rows) == \E i \in DOMAIN rows : rows[i].pred # NaN /\ rows[i].amount.kind = "str"

expense_details(rows) ==
  LET lab == SelectSeq(rows, LAMBDA r : r.pred # NaN)
  IN [i \in DOMAIN lab |->
        [amount |-> lab[i].amount.v, date |-> lab[i].date, category |-> lab[i].category,
         description |-> lab[i].merchant, want |-> lab[i].pred = "want"]]

NoResult == [wants |-> PctText(""), needs |-> PctText(""), expenses |-> <<>>]

\* the result of a classification that returns
classification_result(rows) ==
  [wants |-> get_wants_and_needs_percentages(rows).wants,
   needs |-> get_wants_and_needs_percentages(rows).needs,
   expenses |-> expense_details(rows)]

\* the step of classify_expenses that raises, "" when it returns: an
\* artifact load, model.predict, the write-back, put_object, float(amount)
classify_raised(valid_idx, labels, written, env, output_key) ==
  IF env.load_fails THEN "load"
  ELSE IF env.predict_raises THEN "predict"
  ELSE IF write_back_raises(valid_idx, labels, env) THEN "write_back"
  ELSE IF output_key /\ env.put_fails THEN "put"
  ELSE IF details_raise(written) THEN "details"
  ELSE ""

\* what classify_expenses leaves behind when it ends at the step raised:
\* data is the caller's frame as the call leaves it (written: its rows after
\* the write-back), csv the stored file afterwards, result the return value
classify_outcome(data, csv, output_key, valid_idx, pre, written, raised) ==
  [raised |-> raised,
   data |-> IF raised \in {"load", "predict", "write_back"} THEN data
            ELSE [hasPred |-> TRUE, rows |-> written],
   csv |-> IF raised \in {"", "details"} /\ output_key
           THEN to_csv([hasPred |-> TRUE, rows |-> written]) ELSE csv,
   result |-> IF raised = "" THEN classification_result(written) ELSE NoResult,
   valid_idx |-> valid_idx,
   kept_idx |-> pre.kept_idx,
   x_rows |-> Len(pre.X),
   model_calls |-> IF raised = "load" THEN 0 ELSE 1,
   assembled |-> raised # "load"]

\* classify_expenses after the pre-filter and the feature assembly
classify_assembled(data, csv, env, output_key, valid_idx, pre, labels) ==
  classify_outcome(data, csv, output_key, valid_idx, pre,
                   write_back(data.rows, valid_idx, labels),
                   classify_raised(valid_idx, labels,
                                   write_back(data.rows, valid_idx, labels), env, output_key))

\* classify_expenses(s3_client, data, model_bucket, data_bucket, output_key)
\* on the frame data and the stored CSV csv, under the behaviour env of its
\* collaborators (load_fails: an artifact load raises; predict_raises: the
\* model raises; codes: the class codes it returns; put_fails: put_object
\* raises)
classify_expenses(data, csv, env, output_key) ==
  classify_assembled(data, csv, env, output_key,
                     valid_index(data.rows),
                     preprocess_expense_df_inference(dropna_raw(data.rows, FEATURE_COLS),
                                                     FEATURE_COLS, label_encoders, TRUE),
                     inverse_transform(env.codes))

\* ------------------------------------------------------------- utils.py
\* a response body: text, {'error': ...}, a classification result, or none
Body(kind, text, result) == [kind |-> kind, text |-> text, result |-> result]

\* response_creator(status_code, body)
response_creator(status_code, body) == [statusCode |-> status_code, body |-> body]

\* error_handler(e, message): the 500 response it builds and returns
error_handler(message) == response_creator(500, Body("error", message, NoResult))

\* Python's None, what a bare return gives the caller
None == [statusCode |-> 0, body |-> Body("none", "", NoResult)]

\* no invocation has returned yet
Pending == [statusCode |-> 0, body |-> Body("pending", "", NoResult)]

\* the module global s3_client of utils.py
NoClient == "None"
Client == "client"

\* ------------------------------------------------------------- state
VARIABLES
  store,      \* the CSV stored under DATA_BUCKET / CSV_DATA
  orig,       \* the CSV as it was stored before the first invocation
  s3_client,  \* utils.s3_client
  response,   \* what the last handler invocation returned
  last,       \* what the last invocation did (see NoRun)
  arg,        \* the arguments of the function under check
  res,        \* its result
  pc,         \* "ready" before the call, "done" after it
  clients     \* how many clients boto3.client('s3') has created in the process

vars == <<store, orig, s3_client, response, last, arg, res, pc, clients>>

EmptyCsv == [hasPred |-> FALSE, rows |-> <<>>]

EmptyFrame == [hasPred |-> FALSE, rows |-> <<>>]

\* the record of an invocation: action, the step that failed ("" if none),
\* the 500 response error_handler built for it, the frame read and the same
\* frame as classify_expenses left it, the rows it selected, the rows of X,
\* the number of model.predict calls
NoRun ==
  [action |-> "", failure |-> "", built |-> None, data_in |-> EmptyFrame,
   data_out |-> EmptyFrame, valid_idx |-> <<>>, kept_idx |-> <<>>, x_rows |-> 0,
   model_calls |-> 0, assembled |-> FALSE]

\* ------------------------------------------------------------- main.py
\* what one invocation leaves: the global, the stored CSV, the response
\* and the record of the run
Outcome(client, csv, resp, run) ==
  [s3_client |-> client, store |-> csv, response |-> resp, last |-> run]

\* an except branch: error_handler builds the 500 response, the handler
\* drops it and returns None
Failed(client, csv, step, message, run) ==
  Outcome(client, csv, None, [run EXCEPT !.failure = step, !.built = error_handler(message)])

\* the classify-expenses branch, c being what classify_expenses did
handler_classified(run, c) ==
  IF c.raised # ""
  THEN Failed(Client, c.csv, c.raised, "Failed to classify expenses", run)
  ELSE Outcome(Client, c.csv, response_creator(200, Body("result", "", c.result)), run)

handler_classify(data, c) ==
  handler_classified([NoRun EXCEPT !.action = "classify-expenses", !.data_in = data,
                                   !.data_out = c.data, !.valid_idx = c.valid_idx,
                                   !.kept_idx = c.kept_idx, !.x_rows = c.x_rows,
                                   !.model_calls = c.model_calls,
                                   !.assembled = c.assembled], c)

\* the handler once the client exists and the dataset is read
handler_read(csv, env, data) ==
  IF env.action = "classify-expenses"
  THEN handler_classify(data, classify_expenses(data, csv, env, TRUE))
  ELSE Outcome(Client, csv, None,
               [NoRun EXCEPT !.action = env.action, !.data_in = data, !.data_out = data])

\* handler(event, context) with ACTION = env.action, from the state
\* (client, csv)
handler(client, csv, env) ==
  IF env.action # "classify-expenses" /\ env.action # "predict-expenses"
  THEN Outcome(client, csv,
               response_creator(400, Body("text", "Invalid action specified.", NoResult)),
               [NoRun EXCEPT !.action = env.action])
  ELSE IF client = NoClient /\ env.client_fails
  THEN Failed(client, csv, "client", "Failed to create S3 client",
              [NoRun EXCEPT !.action = env.action])
  ELSE IF env.read_fails
  THEN Failed(Client, csv, "read", "Failed to get CSV data",
              [NoRun EXCEPT !.action = env.action])
  ELSE handler_read(csv, env, read_csv(csv))

\* ------------------------------------------------------------- the tables
Jan15 == DateStr("iso", 2024, 1, 15)
Feb20 == DateStr("iso", 2024, 2, 20)
Dmy15Jan == DateStr("dmy", 2024, 1, 15)

\* the rows the stored dataset is made of: a complete row, a row with no
\* category, a row whose amount is text (and an unseen category), a row
\* dated DD/MM/YYYY (and an unseen merchant)
DataRows ==
  { Row(Num(1250), Jan15, "Groceries", "Supermarket A"),
    Row(Num(999), Feb20, NaN, "Lunch Cafe"),
    Row(Txt, Feb20, "Rent", "Lunch Cafe"),
    Row(Num(700), Dmy15Jan, "Groceries", "Bookshop") }

Tables(rows) == UNION {[1..n -> rows] : n \in 0..MaxRows}

\* the number of rows of X for the stored CSV: the length of what
\* model.predict returns
XRows(csv) ==
  Len(preprocess_expense_df_inference(dropna_raw(read_csv(csv).rows, FEATURE_COLS),
                                      FEATURE_COLS, label_encoders, TRUE).X)

Env(action, cf, rf, lf, pr, codes, bc, pf) ==
  [action |-> action, client_fails |-> cf, read_fails |-> rf, load_fails |-> lf,
   predict_raises |-> pr, codes |-> codes, broadcast |-> bc, put_fails |-> pf]

Init ==
  /\ store \in {to_csv([hasPred |-> FALSE, rows |-> WithIndex(t)]) : t \in Tables(DataRows)}
  /\ orig = store
  /\ s3_client = NoClient
  /\ response = Pending
  /\ last = NoRun
  /\ arg = <<>>
  /\ res = <<>>
  /\ pc = "handler"
  /\ clients = 0

\* The behaviours of the collaborators during one invocation.  The first
\* step that raises ends the invocation, so one failing step per behaviour
\* covers them all; the codes matter only when the model returns, and the
\* broadcast only when it returns a single code.
Envs(csv) ==
  LET n == XRows(csv)
      none == [i \in 1..n |-> 0]
      quiet(action) == Env(action, FALSE, FALSE, FALSE, FALSE, none, FALSE, FALSE)
  IN {quiet("invalid"), quiet("predict-expenses")}
     \cup {[quiet(a) EXCEPT !.client_fails = TRUE] : a \in {"classify-expenses", "predict-expenses"}}
     \cup {[quiet(a) EXCEPT !.read_fails = TRUE] : a \in {"classify-expenses", "predict-expenses"}}
     \cup {[quiet("classify-expenses") EXCEPT !.load_fails = TRUE],
           [quiet("classify-expenses") EXCEPT !.predict_raises = TRUE]}
     \cup {Env("classify-expenses", FALSE, FALSE, FALSE, FALSE, codes, bc, pf) :
             codes \in [1..n -> {0, 1}], bc \in {FALSE, n = 1}, pf \in BOOLEAN}

\* create_s3_client calls boto3.client only while the global is None: the
\* clients an invocation creates, from the global before and after it
created(before, after) == IF before = NoClient /\ after = Client THEN 1 ELSE 0

\* the state after an invocation that leaves h
Becomes(h) ==
  /\ s3_client' = h.s3_client
  /\ store' = h.store
  /\ response' = h.response
  /\ last' = h.last
  /\ clients' = clients + created(s3_client, h.s3_client)
  /\ UNCHANGED <<orig, arg, res, pc>>

\* one invocation of the lambda
Handler == \E env \in Envs(store) : Becomes(handler(s3_client, store, env))

Next == Handler

Spec == Init /\ [][Next]_vars

\* ------------------------------------------------------------- claims
\* the last invocation was a classification whose collaborators all answered
\* (client, read, artifact loads, model, upload)
Classified ==
  /\ last.action = "classify-expenses"
  /\ last.assembled
  /\ last.failure \in {"", "write_back", "details"}

\* the rows of the caller's frame that hold a label after the call
Labelled == labelled_idx(last.data_out.rows)

Unlabelled == {last.data_out.rows[i].idx : i \in DOMAIN last.data_out.rows} \ Labelled

\* C1: after a classification, exactly the rows that make up the feature
\* matrix hold a predicted_expense_type: no row that the pre-filter or the
\* post-transformation drop excluded has one, and as many labels are written
\* as the matrix has rows.
C1_LabelsOnlyOnMatrixRows ==
  Classified =>
    /\ Labelled = Range(last.kept_idx)
    /\ Cardinality(Labelled) = last.x_rows

\* C2: a classification of a table that has rows but none usable (the
\* feature matrix is empty) does not invoke the classifier, raises nothing,
\* and answers 200 with wants 0 and needs 0 in the shape of the non-empty case.
C2_EmptyMatrixSkipsModel ==
  (/\ last.action = "classify-expenses"
   /\ last.assembled
   /\ Len(last.data_in.rows) > 0
   /\ last.x_rows = 0) =>
    /\ last.model_calls = 0
    /\ last.failure = ""
    /\ response.statusCode = 200
    /\ response.body.kind = "result"
    /\ response.body.result.wants = Pct(0)
    /\ response.body.result.needs = Pct(0)

\* C3: an invocation with a valid action in which the client creation, the
\* dataset read, an artifact load or the model fails returns a 500 response
\* with an error message, never None, and no result.
C3_FailureReturns500 ==
  (last.failure \in {"client", "read", "load", "predict"}) =>
    /\ response # None
    /\ response.statusCode = 500
    /\ response.body.kind = "error"
    /\ response.body.text # ""

\* C4: whatever was invoked, the stored dataset equals its original
\* contents, and the frame handed to classify_expenses comes back as it
\* went in (stated for the invocations whose matrix has rows, where the
\* model has labels to return).
C4_SourceLedgerUnchanged ==
  (last.x_rows > 0) =>
    /\ store = orig
    /\ last.data_out = last.data_in

\* the percentages of a 200 classification response, in hundredths
Wants == response.body.result.wants
Needs == response.body.result.needs

\* a classification of a non-empty table that returned its result
ClassifiedNonEmpty ==
  /\ response.statusCode = 200
  /\ response.body.kind = "result"
  /\ Len(last.data_in.rows) > 0

TotalRows == Len(last.data_in.rows)

\* C9 as stated: the percentages are exactly 100 * count / total rows, they
\* sum to at most 100, and to less than 100 exactly when a row has no label.
C9_ExactPercentages ==
  ClassifiedNonEmpty =>
    /\ Wants.kind = "num" /\ Needs.kind = "num"
    /\ Wants.v * TotalRows = 10000 * CountPred(last.data_out.rows, "want")
    /\ Needs.v * TotalRows = 10000 * CountPred(last.data_out.rows, "need")
    /\ Wants.v + Needs.v <= 10000
    /\ (Wants.v + Needs.v < 10000) <=> (Unlabelled # {})

\* C9, amended: each percentage is 100 * count / total rows rounded to two
\* decimals (half to even); the denominator is the row count of the full
\* table; the two sum to at most 100, to exactly 100 when every row has a
\* label, and to less than 100 when some row has none (in a table of fewer
\* than 10000 rows, where a missing row outweighs the rounding).
C9_RoundedPercentages ==
  ClassifiedNonEmpty =>
    /\ Wants.kind = "num" /\ Needs.kind = "num"
    /\ Wants.v = RoundDiv(10000 * CountPred(last.data_out.rows, "want"), TotalRows)
    /\ Needs.v = RoundDiv(10000 * CountPred(last.data_out.rows, "need"), TotalRows)
    /\ Wants.v + Needs.v <= 10000
    /\ (Unlabelled = {}) => (Wants.v + Needs.v = 10000)
    /\ (Unlabelled # {} /\ TotalRows < 10000) => (Wants.v + Needs.v < 10000)

\* three rows, one of them without a label, one want and one need: 33.33 each
C9_Witness ==
  /\ ClassifiedNonEmpty
  /\ TotalRows = 3
  /\ Unlabelled # {}
  /\ Wants = Pct(3333)
  /\ Needs = Pct(3333)

\* ------------------------------------------- preprocess as a function
\* state the handler leaves alone in the specifications of single functions
Idle ==
  /\ store = EmptyCsv
  /\ orig = EmptyCsv
  /\ s3_client = NoClient
  /\ response = Pending
  /\ last = NoRun
  /\ clients = 0

Feb30 == DateStr("iso", 2024, 2, 30)
Dmy31Feb == DateStr("dmy", 2024, 2, 31)
BadDate == DateStr("bad", 0, 0, 0)

\* rows for the direct calls: complete rows, missing cells in every column,
\* the text "Missing" itself, dates of both shapes, dates no calendar has
PreRows ==
  { Row(Num(1250), Jan15, "Groceries", "Supermarket A"),
    Row(Num(4000), Feb20, "Dining Out", "Lunch Cafe"),
    Row(Num(700), Dmy15Jan, "Rent", NaN),
    Row(Txt, Feb30, NaN, "Bookshop"),
    Row(Num(999), NoDate, "Groceries", "Lunch Cafe"),
    Row(NoNum, Dmy31Feb, "Missing", "Supermarket A") }

\* the requested feature columns of a call
FeatureLists ==
  { FEATURE_COLS,
    <<"category", "amount", "description/merchant", "date">>,
    <<"date", "category">> }

\* the encoders of a call: None, the persisted ones, and a pair whose
\* vocabularies hold "Missing"
EncoderChoices ==
  { NoEncoders,
    label_encoders,
    Encoders(<<"Groceries", "Missing", "Rent">>, <<"Bookshop", "Missing">>) }

InitPre ==
  /\ Idle
  /\ arg \in [df : {WithIndex(t) : t \in Tables(PreRows)},
              feature_cols : FeatureLists,
              encoders : EncoderChoices,
              scaler : BOOLEAN]
  /\ res = <<>>
  /\ pc = "ready"

\* one call of preprocess_expense_df_inference
Preprocess ==
  /\ pc = "ready"
  /\ res' = preprocess_expense_df_inference(arg.df, arg.feature_cols, arg.encoders, arg.scaler)
  /\ pc' = "done"
  /\ UNCHANGED <<store, orig, s3_client, response, last, arg, clients>>

NextPre == Preprocess

SpecPre == InitPre /\ [][NextPre]_vars

\* the date column of the call and the DayOfWeek column after the date step
ArgDates == Column(arg.df, "date")

DayOfWeekAt(i) == res.frame[i].vals["DayOfWeek"]

DateStepDone == pc = "done" /\ InCols(arg.feature_cols, "date")

\* every date string of the column parses as YYYY-MM-DD (a missing cell is
\* no date string: it parses under neither format and decides nothing)
AllIso == \A i \in DOMAIN ArgDates : ArgDates[i].fmt = "nan" \/ Parses(ArgDates[i], "iso")

\* C5: the format is decided once for the column.  If every date string
\* parses as YYYY-MM-DD, each row's day of week (0 = Monday .. 6 = Sunday)
\* comes from that format; otherwise every row is read as DD/MM/YYYY and a
\* row that fails it is undetermined.  Nothing raises, and every row of the
\* input, undetermined or not, is still in the frame after the step.
C5_DateFormatPerColumn ==
  DateStepDone =>
    /\ Len(res.frame) = Len(arg.df)
    /\ \A i \in DOMAIN arg.df :
         /\ res.frame[i].idx = arg.df[i].idx
         /\ DayOfWeekAt(i) \in 0..6 \cup {NaNnum}
         /\ AllIso =>
              DayOfWeekAt(i) = (IF Parses(ArgDates[i], "iso")
                                THEN DayOfWeekOf(ArgDates[i]) ELSE NaNnum)
         /\ ~AllIso =>
              DayOfWeekAt(i) = (IF Parses(ArgDates[i], "dmy")
                                THEN DayOfWeekOf(ArgDates[i]) ELSE NaNnum)
         \* 2024-01-15 and 15/01/2024 are a Monday, 2024-02-20 a Tuesday
         /\ (AllIso /\ ArgDates[i] = Jan15) => DayOfWeekAt(i) = 0
         /\ (AllIso /\ ArgDates[i] = Feb20) => DayOfWeekAt(i) = 1
         /\ (~AllIso /\ ArgDates[i] = Dmy15Jan) => DayOfWeekAt(i) = 0

\* a column that mixes the shapes: the DD/MM/YYYY row is determined, the
\* YYYY-MM-DD row is undetermined, and both are still there
C5_Witness ==
  /\ DateStepDone
  /\ \E i, j \in DOMAIN arg.df :
       /\ ArgDates[i] = Jan15 /\ DayOfWeekAt(i) = NaNnum
       /\ ArgDates[j] = Dmy15Jan /\ DayOfWeekAt(j) = 0

\* the categorical columns a call encodes, with the field that holds them
CatField(c) == IF c = "category" THEN "category" ELSE "merchant"

Encoded(c) == pc = "done" /\ InCols(arg.feature_cols, c)

\* the value of row i in column c as the encoder sees it
FilledAt(c, i) == IF arg.df[i][CatField(c)] = NaN THEN "Missing" ELSE arg.df[i][CatField(c)]

CodeAt(c, i) == res.frame[i].vals[XColName(c)]

\* C6: in apply mode every value of the vocabulary gets its vocabulary code
\* and every value outside it gets 0; unseen values abort nothing: each row
\* of the input has its code.
C6_ApplyModeFallback ==
  \A c \in Range(CAT_COLS) :
    (Encoded(c) /\ HasEncoder(arg.encoders, c)) =>
      /\ Len(res.frame) = Len(arg.df)
      /\ \A i \in DOMAIN arg.df :
           LET classes == arg.encoders.classes[c]
           IN IF \E k \in DOMAIN classes : classes[k] = FilledAt(c, i)
              THEN classes[CodeAt(c, i) + 1] = FilledAt(c, i)
              ELSE CodeAt(c, i) = 0

\* a column with a known value that is not first in the vocabulary next to
\* an unseen one
C6_Witness ==
  /\ Encoded("category")
  /\ arg.encoders = label_encoders
  /\ \E i, j \in DOMAIN arg.df :
       /\ arg.df[i].category = "Groceries" /\ CodeAt("category", i) = 1
       /\ arg.df[j].category = "Rent" /\ CodeAt("category", j) = 0

\* the distinct values of column c that occur before the first occurrence
\* of the value of row i
SeenBefore(c, i) ==
  LET first == CHOOSE k \in DOMAIN arg.df :
                 /\ FilledAt(c, k) = FilledAt(c, i)
                 /\ \A m \in 1..(k - 1) : FilledAt(c, m) # FilledAt(c, i)
  IN {FilledAt(c, m) : m \in 1..(first - 1)}

\* the distinct values of column c that sort before the value of row i
SortBefore(c, i) ==
  {FilledAt(c, m) : m \in {n \in DOMAIN arg.df : Rank(FilledAt(c, n)) < Rank(FilledAt(c, i))}}

FinalColumn(c) ==
  IF c = "date" THEN "DayOfWeek"
  ELSE IF c \in Range(CAT_COLS) THEN c \o "_enc"
  ELSE c

\* the row of the transformed frame that became row i of the matrix
MatrixSource(i) == res.frame[res.kept_idx[i]]

\* C11: the returned column names and the matrix columns follow the
\* requested feature columns position by position, whether encoders were
\* passed (apply) or not (fit): position j is the day of week where date was
\* requested, the encoded column where a categorical column was requested,
\* and the requested column itself otherwise; every matrix row carries at
\* position j the value its source row has in that column.
C11_RequestedColumnOrder ==
  (pc = "done") =>
    /\ Len(res.used_cols) = Len(arg.feature_cols)
    /\ \A j \in DOMAIN arg.feature_cols : res.used_cols[j] = FinalColumn(arg.feature_cols[j])
    /\ \A i \in DOMAIN res.X :
         /\ Len(res.X[i]) = Len(arg.feature_cols)
         /\ \A j \in DOMAIN arg.feature_cols :
              res.X[i][j] = MatrixSource(i).vals[FinalColumn(arg.feature_cols[j])]

\* fit mode, the columns requested as category, amount, merchant, date over
\* a Monday row and a Tuesday row: the matrix keeps that order
C11_Witness ==
  /\ pc = "done"
  /\ ~arg.encoders.given
  /\ arg.feature_cols = <<"category", "amount", "description/merchant", "date">>
  /\ res.used_cols = <<"category_enc", "amount", "description/merchant_enc", "DayOfWeek">>
  /\ Len(arg.df) = 2
  /\ arg.df[1].date = Jan15 /\ arg.df[1].amount = Num(1250)
  /\ arg.df[2].date = Feb20 /\ arg.df[2].amount = Num(4000)
  /\ res.X = << <<1, 1250, 1, 0>>, <<0, 4000, 0, 1>> >>

\* ------------------------------------------------- expenses_predictor.py
RECURSIVE SumSeq(_)
\* sum of a sequence of numbers
SumSeq(q) == IF q = <<>> THEN 0 ELSE q[1] + SumSeq(Tail(q))

\* an expense of process_expense_data_snapshots: amount in cents, and the
\* year, month and day of its datetime
Expense(amount, y, m, d) == [amount |-> amount, year |-> y, month |-> m, day |-> d]

snapshot_days == <<5, 10, 15, 20, 25, 28>>

\* expensive_threshold = 100, in cents
expensive_threshold == 10000

\* (year, month) keys in the order groupby yields them: sorted
GroupBefore(a, b) == a[1] < b[1] \/ (a[1] = b[1] /\ a[2] < b[2])

RECURSIVE SortGroups(_)
SortGroups(S) ==
  IF S = {} THEN <<>>
  ELSE LET lo == CHOOSE x \in S : \A y \in S : x = y \/ GroupBefore(x, y)
       IN <<lo>> \o SortGroups(S \ {lo})

groups(expenses) == SortGroups({<<expenses[i].year, expenses[i].month>> : i \in DOMAIN expenses})

\* a snapshot whose average divides by the number of transactions
snapshot_per_transaction(group, key, day_cutoff) ==
  LET partial == SelectSeq(group, LAMBDA e : e.day <= day_cutoff)
      amounts == [i \in DOMAIN partial |-> partial[i].amount]
  IN [year |-> key[1], month |-> key[2], day |-> day_cutoff,
      total_so_far |-> SumSeq(amounts),
      avg_daily_so_far |-> RoundDiv(SumSeq(amounts), Len(partial)),
      num_expensive_transactions |->
        Cardinality({i \in DOMAIN partial : partial[i].amount > expensive_threshold}),
      num_transactions |-> Len(partial),
      target_total_expenses |-> SumSeq([i \in DOMAIN group |-> group[i].amount])]

\* the snapshot of one group at one cutoff; the three money fields rounded
\* to two decimals (whole cents)
snapshot(group, key, day_cutoff) ==
  LET partial == SelectSeq(group, LAMBDA e : e.day <= day_cutoff)
      amounts == [i \in DOMAIN partial |-> partial[i].amount]
  IN [year |-> key[1], month |-> key[2], day |-> day_cutoff,
      total_so_far |-> SumSeq(amounts),
      avg_daily_so_far |-> RoundDiv(SumSeq(amounts), day_cutoff),
      num_expensive_transactions |->
        Cardinality({i \in DOMAIN partial : partial[i].amount > expensive_threshold}),
      num_transactions |-> Len(partial),
      target_total_expenses |-> SumSeq([i \in DOMAIN group |-> group[i].amount])]

RECURSIVE Flatten(_)
Flatten(qq) == IF qq = <<>> THEN <<>> ELSE qq[1] \o Flatten(Tail(qq))

\* generate_snapshots: per group in key order, per cutoff in list order, one
\* snapshot unless the slice is empty
generate_snapshots(expenses) ==
  LET keys == groups(expenses)
      of(key) == SelectSeq(expenses, LAMBDA e : e.year = key[1] /\ e.month = key[2])
      cut(key) == SelectSeq(snapshot_days,
                            LAMBDA c : \E i \in DOMAIN expenses :
                               /\ expenses[i].year = key[1]
                               /\ expenses[i].month = key[2]
                               /\ expenses[i].day <= c)
  IN Flatten([k \in DOMAIN keys |->
                [j \in DOMAIN cut(keys[k]) |-> snapshot(of(keys[k]), keys[k], cut(keys[k])[j])]])

\* process_expense_data_snapshots(expenses): raises KeyError on an empty
\* list (no 'amount' column) and when no snapshot was produced (the frame
\* has none of the columns to round)
process_expense_data_snapshots(expenses) ==
  LET data == generate_snapshots(expenses)
  IN IF Len(expenses) = 0 \/ Len(data) = 0
     THEN [raised |-> TRUE, data |-> <<>>]
     ELSE [raised |-> FALSE, data |-> data]

\* the expenses the snapshot function is called with
SnapshotExpenses ==
  { Expense(5000, 2024, 1, 1),
    Expense(3000, 2024, 1, 3),
    Expense(2000, 2024, 1, 10),
    Expense(10001, 2024, 1, 29),
    Expense(10000, 2024, 2, 5),
    Expense(15050, 2024, 2, 28),
    Expense(100, 2023, 12, 31) }

InitSnap ==
  /\ Idle
  /\ arg \in Tables(SnapshotExpenses)
  /\ res = <<>>
  /\ pc = "ready"

\* one call of process_expense_data_snapshots
Snapshots ==
  /\ pc = "ready"
  /\ res' = process_expense_data_snapshots(arg)
  /\ pc' = "done"
  /\ UNCHANGED <<store, orig, s3_client, response, last, arg, clients>>

NextSnap == Snapshots

SpecSnap == InitSnap /\ [][NextSnap]_vars

\* the expenses of the call in group key up to day c
Slice(key, c) ==
  {i \in DOMAIN arg : arg[i].year = key[1] /\ arg[i].month = key[2] /\ arg[i].day <= c}

RECURSIVE SumAmounts(_)
\* the sum of the amounts of the expenses at the positions I
SumAmounts(I) ==
  IF I = {} THEN 0
  ELSE LET i == CHOOSE i \in I : TRUE IN arg[i].amount + SumAmounts(I \ {i})

SnapshotsOf(key, c) ==
  {k \in DOMAIN res.data :
     res.data[k].year = key[1] /\ res.data[k].month = key[2] /\ res.data[k].day = c}

ArgGroups == {<<arg[i].year, arg[i].month>> : i \in DOMAIN arg}

\* the fields of the snapshots that do not depend on how the average is taken
SnapshotCounts(key, c, sn) ==
  /\ sn.total_so_far = SumAmounts(Slice(key, c))
  /\ sn.num_expensive_transactions =
       Cardinality({i \in Slice(key, c) : arg[i].amount > 10000})
  /\ sn.num_transactions = Cardinality(Slice(key, c))
  /\ sn.target_total_expenses = SumAmounts(Slice(key, 31))

\* C7 as stated: per group and cutoff with a non-empty slice exactly one
\* snapshot, with avg_daily_so_far exactly total_so_far / cutoff; none for an
\* empty slice.
C7_ExactAverage ==
  (pc = "done") =>
    \A key \in ArgGroups : \A j \in DOMAIN snapshot_days :
      LET c == snapshot_days[j]
      IN IF Slice(key, c) = {} \/ res.raised
         THEN SnapshotsOf(key, c) = {}
         ELSE /\ Cardinality(SnapshotsOf(key, c)) = 1
              /\ \A k \in SnapshotsOf(key, c) :
                   /\ SnapshotCounts(key, c, res.data[k])
                   /\ res.data[k].avg_daily_so_far * c = res.data[k].total_so_far

\* C7, amended: per group and cutoff in {5,10,15,20,25,28} with a non-empty
\* slice exactly one snapshot, with total_so_far the sum of the slice,
\* avg_daily_so_far that sum divided by the cutoff and rounded to two
\* decimals, the two counts, and target_total_expenses the sum of the whole
\* month; none for an empty slice; the function raises when no slice of any
\* group is non-empty.
C7_RoundedAverage ==
  (pc = "done") =>
    /\ res.raised <=> (\A key \in ArgGroups : Slice(key, 28) = {})
    /\ DOMAIN res.data =
         1..Cardinality({kc \in ArgGroups \X Range(snapshot_days) :
                           ~res.raised /\ Slice(kc[1], kc[2]) # {}})
    /\ \A key \in ArgGroups : \A j \in DOMAIN snapshot_days :
         LET c == snapshot_days[j]
         IN IF Slice(key, c) = {} \/ res.raised
            THEN SnapshotsOf(key, c) = {}
            ELSE /\ Cardinality(SnapshotsOf(key, c)) = 1
                 /\ \A k \in SnapshotsOf(key, c) :
                      /\ SnapshotCounts(key, c, res.data[k])
                      /\ res.data[k].avg_daily_so_far =
                           RoundDiv(SumAmounts(Slice(key, c)), c)

\* 50 on day 1, 30 on day 3, 20 on day 10: at cutoff 5 the total is 80 and
\* the average 16.00, at cutoff 15 the total is 100 and the average 6.67
C7_Witness ==
  /\ pc = "done"
  /\ arg = <<Expense(5000, 2024, 1, 1), Expense(3000, 2024, 1, 3), Expense(2000, 2024, 1, 10)>>
  /\ Len(res.data) = 6
  /\ res.data[1] = [year |-> 2024, month |-> 1, day |-> 5, total_so_far |-> 8000,
                    avg_daily_so_far |-> 1600, num_expensive_transactions |-> 0,
                    num_transactions |-> 2, target_total_expenses |-> 10000]
  /\ res.data[3].day = 15
  /\ res.data[3].total_so_far = 10000
  /\ res.data[3].avg_daily_so_far = 667

\* --------------------------------------------- get_current_month_expenses
\* the latest day of the month the model takes for today
MaxToday == 4

\* a row of the CSV that get_s3_file returns: the amount field and the
\* date field as text (empty when missing)
CsvRow(a, d) == [amount |-> a, date |-> d]

\* parse_expenses: the rows whose amount float() accepts, in file order
parse_expenses(csv_content) == SelectSeq(csv_content, LAMBDA r : r.amount.kind = "num")

\* datetime.strptime(date, '%Y-%m-%d') raises ValueError
strptime_raises(d) == ~Parses(d, "iso")

\* a filter that forgets the year
current_month_any_year(all_expenses, today) ==
  SelectSeq(all_expenses, LAMBDA e : e.date.m = today.m /\ e.date.d <= today.d)

\* the filter of the current month: same month, same year, not after today
current_month_expenses(all_expenses, today) ==
  SelectSeq(all_expenses,
            LAMBDA e : /\ e.date.m = today.m
                       /\ e.date.y = today.y
                       /\ (e.date.y < today.y
                           \/ (e.date.y = today.y /\ e.date.m < today.m)
                           \/ (e.date.y = today.y /\ e.date.m = today.m /\ e.date.d <= today.d)))

\* daily_totals[day]
daily_total(expenses, day) ==
  SumSeq([i \in DOMAIN SelectSeq(expenses, LAMBDA e : e.date.d = day) |->
            SelectSeq(expenses, LAMBDA e : e.date.d = day)[i].amount.v])

RECURSIVE cumulative(_, _)
\* cumulative_total after the days 1..day
cumulative(expenses, day) ==
  IF day = 0 THEN 0 ELSE cumulative(expenses, day - 1) + daily_total(expenses, day)

\* get_current_month_expenses() on the day today, the bucket holding
\* csv_content; fetch_fails: get_s3_file raises
get_current_month_expenses(today, csv_content, fetch_fails) ==
  LET all_expenses == parse_expenses(csv_content)
      current == current_month_expenses(all_expenses, today)
  IN IF fetch_fails \/ (\E i \in DOMAIN all_expenses : strptime_raises(all_expenses[i].date))
     THEN [raised |-> TRUE, result |-> <<>>]
     ELSE [raised |-> FALSE,
           result |-> [day \in 1..today.d |->
                         [day |-> day,
                          totalMonthExpensesTillToday |-> cumulative(current, day)]]]

Feb01 == DateStr("iso", 2024, 2, 1)
Feb03 == DateStr("iso", 2024, 2, 3)

\* rows of the file: this month, later this month, the same month a year
\* ago, last month, an amount that is text, a date that is not YYYY-MM-DD
MonthRows ==
  { CsvRow(Num(1250), Feb01),
    CsvRow(Num(4000), Feb03),
    CsvRow(Num(500), Feb20),
    CsvRow(Num(999), DateStr("iso", 2023, 2, 2)),
    CsvRow(Num(700), Jan15),
    CsvRow(Txt, Feb01),
    CsvRow(Num(300), Dmy15Jan) }

\* today is a day of February 2024
InitMonth ==
  /\ Idle
  /\ arg \in [today : {DateStr("iso", 2024, 2, d) : d \in 1..MaxToday},
              csv_content : Tables(MonthRows),
              fetch_fails : BOOLEAN]
  /\ res = <<>>
  /\ pc = "ready"

\* one call of get_current_month_expenses; its get_s3_file creates a client
\* of its own before it reads the file
CurrentMonth ==
  /\ pc = "ready"
  /\ res' = get_current_month_expenses(arg.today, arg.csv_content, arg.fetch_fails)
  /\ pc' = "done"
  /\ clients' = clients + 1
  /\ UNCHANGED <<store, orig, s3_client, response, last, arg>>

NextMonth == CurrentMonth

SpecMonth == InitMonth /\ [][NextMonth]_vars

\* the rows of the file that count up to day k: a numeric amount, this
\* month of this year, on or before day k
CountedUpTo(k) ==
  {i \in DOMAIN arg.csv_content :
     /\ arg.csv_content[i].amount.kind = "num"
     /\ arg.csv_content[i].date.y = arg.today.y
     /\ arg.csv_content[i].date.m = arg.today.m
     /\ arg.csv_content[i].date.d <= k}

RECURSIVE SumRows(_)
SumRows(I) ==
  IF I = {} THEN 0
  ELSE LET i == CHOOSE i \in I : TRUE IN arg.csv_content[i].amount.v + SumRows(I \ {i})

\* C8: the series returned has one entry per day 1..today, in order; each
\* total is the sum of the amounts of this month's rows of this year up to
\* that day (none of them after today); the totals never decrease.
C8_CumulativeSeries ==
  (pc = "done" /\ ~res.raised) =>
    /\ Len(res.result) = arg.today.d
    /\ \A k \in DOMAIN res.result :
         /\ res.result[k].day = k
         /\ res.result[k].totalMonthExpensesTillToday = SumRows(CountedUpTo(k))
         /\ k > 1 => res.result[k].totalMonthExpensesTillToday
                       >= res.result[k - 1].totalMonthExpensesTillToday

\* today is the 4th: 12.50 on the 1st, 40.00 on the 3rd, a row of last
\* year; day 2 has no row and repeats the total of day 1
C8_Witness ==
  /\ pc = "done"
  /\ ~res.raised
  /\ arg.today.d = 4
  /\ arg.csv_content = <<CsvRow(Num(4000), Feb03), CsvRow(Num(999), DateStr("iso", 2023, 2, 2)),
                         CsvRow(Num(1250), Feb01)>>
  /\ [k \in 1..4 |-> res.result[k].totalMonthExpensesTillToday] = <<1250, 1250, 5250, 5250>>

\* --------------------------------------------- the process and its clients
\* calls of get_s3_file followed in one process
MaxClients == 2

\* one call of get_s3_file(): boto3.client('s3') creates a client local to
\* the call, which reads the file and returns its text to the caller;
\* utils.s3_client is neither read nor written
GetS3File ==
  /\ clients < MaxClients
  /\ clients' = clients + 1
  /\ UNCHANGED <<store, orig, s3_client, response, last, arg, res, pc>>

\* invocations of the handler and fetches of the predictor in one process
NextProcess == Handler \/ GetS3File

SpecProcess == Init /\ [][NextProcess]_vars

\* C12: in one process at most one storage client is ever created, and a
\* client that exists is the cached one, the handle every storage access
\* goes through.
C12_SingleCachedClient ==
  /\ clients <= 1
  /\ (clients = 1) => (s3_client = Client)

====
